---- MODULE Spec2Model ----
(***************************************************************************)
(* Model of the vocabulary pipeline of the repository:                     *)
(*   src/chinese/processing_docx.py  (ProcessDocx, main)                   *)
(*   src/chinese/scraping.py         (ChineInTranslator, lookups)          *)
(*   src/utils/data.py               (Save.save_json, File.file_name)      *)
(*                                                                         *)
(* A Python str is a sequence of one-character strings, so that find,     *)
(* split, slicing and the tag regex are computed character by character.  *)
(* Only ASCII is written here: the accented letters of the site's markers *)
(* are written unaccented and the ideographs of a word are written as the *)
(* capital letters N and H (which, like ideographs, satisfy isalnum).     *)
(***************************************************************************)
EXTENDS Integers, Sequences, FiniteSets, TLC

(***************************************************************************)
(* Python values                                                           *)
(***************************************************************************)
\* Python's None, and a str, as the value of an Optional[str]
PyNone == [tag |-> "none"]
PyStr(s) == [tag |-> "str", str |-> s]
PyList(l) == [tag |-> "list", list |-> l]

\* truthiness of an Optional[str]: None and "" are falsy
Truthy(v) == v.tag = "str" /\ v.str /= <<>>

\* the outcome of a call: a returned value or a raised exception
Return(v) == [raised |-> FALSE, value |-> v]
Raise(t) == [raised |-> TRUE, type |-> t]

(***************************************************************************)
(* str methods                                                             *)
(***************************************************************************)
\* s[i:] of Python for a 0-based i, as the 1-based tail
Drop(s, n) == SubSeq(s, n + 1, Len(s))

\* s.startswith(m) at 1-based position p
MatchAt(s, m, p) == p + Len(m) - 1 <= Len(s) /\ SubSeq(s, p, p + Len(m) - 1) = m

\* s.find(m, start): the least 0-based index >= start where m occurs, else -1
RECURSIVE Find(_, _, _)
Find(s, m, start) ==
    IF start + Len(m) > Len(s) THEN -1
    ELSE IF MatchAt(s, m, start + 1) THEN start
    ELSE Find(s, m, start + 1)

\* m in s
Contains(s, m) == Find(s, m, 0) /= -1

\* s.split(sep) for a non-empty separator: always at least one piece
RECURSIVE Split(_, _)
Split(s, sep) ==
    LET i == Find(s, sep, 0)
    IN IF i = -1 THEN <<s>>
       ELSE <<SubSeq(s, 1, i)>> \o Split(Drop(s, i + Len(sep)), sep)

\* l[:-1] forgotten: the piece after the last separator is kept
KeepLast(l) == l

\* l[:-1]
DropLast(l) == SubSeq(l, 1, Len(l) - 1)

\* the characters for which str.isalnum is true, among those the model writes
AlnumChars == {"a", "b", "x", "N", "H", "0", "2", "4"}
isalnum(c) == c \in AlnumChars

(***************************************************************************)
(* src/chinese/scraping.py: ChineInTranslator                              *)
(***************************************************************************)
\* re.sub(r"<.*?>", "", s): from each "<", the shortest run up to a ">" on
\* the same line is removed; "." does not match a line break
RECURSIVE ReSubTags(_)
ReSubTags(s) ==
    IF s = <<>> THEN <<>>
    ELSE IF Head(s) /= "<" THEN <<Head(s)>> \o ReSubTags(Tail(s))
    ELSE LET close == Find(s, <<">">>, 1)
             brk == Find(s, <<"\n">>, 1)
         IN IF close /= -1 /\ (brk = -1 \/ close < brk)
            THEN ReSubTags(Drop(s, close + 1))
            ELSE <<"<">> \o ReSubTags(Tail(s))

\* [re.sub(...) for s in text]: iterating None raises TypeError, iterating a
\* str yields its characters one by one, iterating a list yields its items
remove_html_tags(text) ==
    CASE text.tag = "none" -> Raise("TypeError")
      [] text.tag = "str" ->
            Return([i \in 1..Len(text.str) |-> ReSubTags(<<text.str[i]>>)])
      [] text.tag = "list" ->
            Return([i \in 1..Len(text.list) |-> ReSubTags(text.list[i])])

\* the end marker searched from the start of the text, not from start_index
extract_between_markers_from_zero(result, start_marker, end_marker) ==
    LET found == Find(result, start_marker, 0)
        start_index == found + Len(start_marker)
    IN IF found = -1 THEN PyNone
       ELSE IF end_marker /= <<>>
            THEN LET end_index == Find(result, end_marker, 0)
                 IN IF end_index = -1 THEN PyNone
                    ELSE PyStr(SubSeq(result, start_index + 1, end_index))
            ELSE PyStr(Drop(result, start_index))

\* start_index = result.find(start_marker), then result.find(end_marker,
\* start_index) past the start marker; an empty end marker means "to the end"
extract_between_markers(result, start_marker, end_marker) ==
    LET found == Find(result, start_marker, 0)
        start_index == found + Len(start_marker)
    IN IF found = -1 THEN PyNone
       ELSE IF end_marker /= <<>>
            THEN LET end_index == Find(result, end_marker, start_index)
                 IN IF end_index = -1 THEN PyNone
                    ELSE PyStr(SubSeq(result, start_index + 1, end_index))
            ELSE PyStr(Drop(result, start_index))

\* the marker strings of the dictionary site
EntreesPour == <<"E","n","t","r","e","e","s"," ","p","o","u","r"," ">>
EntreesCommencantPar ==
    <<"E","n","t","r","e","e","s"," ","c","o","m","m","e","n","c","a","n","t"," ","p","a","r">>
Traduction == <<"T","r","a","d","u","c","t","i","o","n">>
EditerCfdict ==
    <<"E","d","i","t","e","r"," ","(","p","r","o","j","e","t"," ","C","F","D","I","C","T",")">>
LiOpen == <<"<","l","i",">">>
LiClose == <<"<","/","l","i",">">>

get_traduction(query, results_raw) ==
    LET traduction == extract_between_markers(results_raw,
                          EntreesPour \o query, EntreesCommencantPar)
    IN IF ~Truthy(traduction)
       THEN extract_between_markers(results_raw, Traduction, EditerCfdict)
       ELSE traduction

\* return_traduction once chine_in_extractor has returned the container whose
\* serialized markup is results_raw
return_traduction(query, results_raw) ==
    LET traduction == get_traduction(query, results_raw)
        items == IF Truthy(traduction) /\ Contains(traduction.str, LiOpen)
                 THEN PyList(DropLast(Split(traduction.str, LiClose)))
                 ELSE traduction
    IN remove_html_tags(items)

(***************************************************************************)
(* src/chinese/processing_docx.py: ProcessDocx                             *)
(***************************************************************************)
\* the placeholders of an unresolved entry: [""] and ""
NoTraduction == << <<>> >>
NoPronunciation == <<>>

Entry(c, t, p) == [character |-> c, traduction |-> t, pronunciation |-> p]

\* the upper limit of 0 < len(word) < 12
MaxWordLen == 12
Year == <<"2", "0", "2", "4">>

\* extract_vocab over the tokens of text.split(" "): the membership test reads
\* self.list_characters, which is the set built by main and is not updated here
RECURSIVE extract_vocab(_, _, _)
extract_vocab(list_chars, vocab, text) ==
    IF text = <<>> THEN vocab
    ELSE LET word == SelectSeq(Head(text), isalnum)
             keep == /\ word \notin list_chars
                     /\ 0 < Len(word) /\ Len(word) < MaxWordLen
                     /\ ~Contains(word, Year)
         IN extract_vocab(list_chars,
                          IF keep
                          THEN Append(vocab, Entry(word, NoTraduction, NoPronunciation))
                          ELSE vocab,
                          Tail(text))

\* vocab_list: Read.read_docx, then extract_vocab(text.split(" "))
vocab_list(list_chars, vocab, text) ==
    extract_vocab(list_chars, vocab, Split(text, <<" ">>))

(***************************************************************************)
(* src/chinese/processing_xml.py: str and re helpers                       *)
(***************************************************************************)
UpperLetters ==
    <<"A","B","C","D","E","F","G","H","I","J","K","L","M",
      "N","O","P","Q","R","S","T","U","V","W","X","Y","Z">>
LowerLetters ==
    <<"a","b","c","d","e","f","g","h","i","j","k","l","m",
      "n","o","p","q","r","s","t","u","v","w","x","y","z">>
Digits == {"0", "1", "2", "3", "4", "5", "6", "7", "8", "9"}

\* \s, \d and \w of re over the characters the model writes
IsSpace(c) == c \in {" ", "\n", "\t"}
IsDigit(c) == c \in Digits
IsWord(c) ==
    \/ c \in Digits
    \/ c = "_"
    \/ \E i \in 1..26 : c = UpperLetters[i] \/ c = LowerLetters[i]

\* the comparison of a str taken as it is, where str.lower was meant
lower_kept(s) == s

\* str.lower
lower(s) ==
    [k \in 1..Len(s) |->
        IF \E i \in 1..26 : s[k] = UpperLetters[i]
        THEN LowerLetters[CHOOSE i \in 1..26 : s[k] = UpperLetters[i]]
        ELSE s[k]]

\* str.strip: whitespace removed at both ends
RECURSIVE lstrip(_)
lstrip(s) == IF s /= <<>> /\ IsSpace(Head(s)) THEN lstrip(Tail(s)) ELSE s
RECURSIVE rstrip(_)
rstrip(s) ==
    IF s /= <<>> /\ IsSpace(s[Len(s)]) THEN rstrip(SubSeq(s, 1, Len(s) - 1)) ELSE s
strip(s) == rstrip(lstrip(s))

\* the length of the run of digits of s that starts at 1-based position p
RECURSIVE DigitRun(_, _)
DigitRun(s, p) ==
    IF p <= Len(s) /\ IsDigit(s[p]) THEN 1 + DigitRun(s, p + 1) ELSE 0

\* the length of the run of whitespace of s that starts at 1-based position p
RECURSIVE SpaceRun(_, _)
SpaceRun(s, p) ==
    IF p <= Len(s) /\ IsSpace(s[p]) THEN 1 + SpaceRun(s, p + 1) ELSE 0

\* \d+\s matches at 1-based position p: digits, then a whitespace character
NumberAt(s, p) ==
    LET n == DigitRun(s, p)
    IN n > 0 /\ p + n <= Len(s) /\ IsSpace(s[p + n])

\* re.split(r"(?=\d+\s)", text): the text is cut before every position where
\* the lookahead matches, position 0 included (the first piece is then "");
\* from is the 1-based start of the piece being read and p the position read
RECURSIVE SplitBeforeNumbers(_, _, _)
SplitBeforeNumbers(s, from, p) ==
    IF p > Len(s) THEN <<SubSeq(s, from, Len(s))>>
    ELSE IF NumberAt(s, p)
         THEN <<SubSeq(s, from, p - 1)>> \o SplitBeforeNumbers(s, p, p + 1)
         ELSE SplitBeforeNumbers(s, from, p + 1)

\* re.split(r"(?<=\.)\s+", text): the text is cut at every run of whitespace
\* that follows a period, and the run is dropped
RECURSIVE SplitAfterPeriods(_, _, _)
SplitAfterPeriods(s, from, p) ==
    IF p > Len(s) THEN <<SubSeq(s, from, Len(s))>>
    ELSE IF p > 1 /\ s[p - 1] = "." /\ IsSpace(s[p])
         THEN <<SubSeq(s, from, p - 1)>>
              \o SplitAfterPeriods(s, p + SpaceRun(s, p), p + SpaceRun(s, p))
         ELSE SplitAfterPeriods(s, from, p + 1)

(***************************************************************************)
(* src/chinese/processing_xml.py: DefinitionParser                         *)
(***************************************************************************)
parts_of_speech ==
    << <<"a","d","j","e","c","t","i","v","e">>,
       <<"a","d","v","e","r","b">>,
       <<"a","f","f","i","x">>,
       <<"a","u","x","i","l","i","a","r","y">>,
       <<"i","d","i","o","m">>,
       <<"n","o","u","n">>,
       <<"p","r","e","p","o","s","i","t","i","o","n">>,
       <<"p","r","o","n","o","u","n">>,
       <<"s","u","r","n","a","m","e">>,
       <<"v","e","r","b">> >>
Labels == {parts_of_speech[i] : i \in 1..Len(parts_of_speech)}

\* \b at the 0-based offset p of s: a word character on exactly one side
Boundary(s, p) ==
    (p > 0 /\ IsWord(s[p])) /= (p < Len(s) /\ IsWord(s[p + 1]))

\* the label matched without its \b: any occurrence of the letters counts
LabelAtAnywhere(s, p) ==
    {l \in Labels : /\ p + Len(l) <= Len(s)
                    /\ lower(SubSeq(s, p + 1, p + Len(l))) = l}

\* the labels that \b(adjective|...|verb)\b matches at the 0-based offset p,
\* letter case ignored (at most one, since a match is a whole word)
LabelAt(s, p) ==
    {l \in Labels : /\ p + Len(l) <= Len(s)
                    /\ lower(SubSeq(s, p + 1, p + Len(l))) = l
                    /\ Boundary(s, p)
                    /\ Boundary(s, p + Len(l))}

\* list(re.finditer(pos_pattern, definition, re.IGNORECASE)) from offset p on:
\* each match as its start and its label in lower case
RECURSIVE finditer(_, _)
finditer(s, p) ==
    IF p >= Len(s) THEN <<>>
    ELSE IF LabelAt(s, p) = {} THEN finditer(s, p + 1)
    ELSE LET l == CHOOSE x \in LabelAt(s, p) : TRUE
         IN <<[start |-> p, part |-> l]>> \o finditer(s, p + Len(l))

\* the label left at the head of the partition
keep_label(text, label) == text

\* re.sub(r"^\b" + label + r"\b", "", text, flags=re.IGNORECASE)
remove_label(text, label) ==
    IF /\ Len(label) <= Len(text)
       /\ lower(SubSeq(text, 1, Len(label))) = label
       /\ Boundary(text, 0)
       /\ Boundary(text, Len(label))
    THEN Drop(text, Len(label))
    ELSE text

\* one record of _split_definitions from one piece of def_splits, stripped
split_examples(def_text) ==
    LET number == DigitRun(def_text, 1)
        numbered == number > 0 /\ number < Len(def_text) /\ IsSpace(def_text[number + 1])
        body == IF numbered THEN strip(Drop(def_text, number)) ELSE def_text
        example_splits == SplitAfterPeriods(body, 1, 1)
    IN [definition |-> Head(example_splits),
        examples |-> SelectSeq([i \in 1..(Len(example_splits) - 1) |->
                                    strip(example_splits[i + 1])],
                               LAMBDA ex : ex /= <<>>)]

RECURSIVE split_records(_)
split_records(def_splits) ==
    IF def_splits = <<>> THEN <<>>
    ELSE LET def_text == strip(Head(def_splits))
         IN (IF def_text = <<>> THEN <<>> ELSE <<split_examples(def_text)>>)
            \o split_records(Tail(def_splits))

_split_definitions(text) == split_records(SplitBeforeNumbers(text, 1, 1))

\* a dict of Python as a function; the first value stored for a key is kept
dict_setdefault(d, k, v) ==
    [x \in DOMAIN d \cup {k} |-> IF x \in DOMAIN d THEN d[x] ELSE v]

\* parsed_data[current_pos] = definitions: a value already stored is replaced
dict_set(d, k, v) ==
    [x \in DOMAIN d \cup {k} |-> IF x = k THEN v ELSE d[x]]

EmptyDict == [x \in {} |-> <<>>]
PyDict(d) == [tag |-> "dict", dict |-> d]

\* the loop of lines 240-250 from the match idx on
RECURSIVE parse_partitions(_, _, _, _)
parse_partitions(definition, matches, idx, parsed_data) ==
    IF idx > Len(matches) THEN parsed_data
    ELSE LET current_pos == matches[idx].part
             start_idx == matches[idx].start
             end_idx == IF idx < Len(matches) THEN matches[idx + 1].start
                        ELSE Len(definition)
             text == strip(SubSeq(definition, start_idx + 1, end_idx))
             definitions == _split_definitions(strip(remove_label(text, current_pos)))
         IN parse_partitions(definition, matches, idx + 1,
                             dict_set(parsed_data, current_pos, definitions))

parse_definition(definition) ==
    LET matches == finditer(definition, 0)
    IN IF matches = <<>> THEN PyStr(definition)
       ELSE PyDict(parse_partitions(definition, matches, 1, EmptyDict))

(***************************************************************************)
(* src/chinese/processing_xml.py: CardManager                              *)
(***************************************************************************)
\* a card: its headword and its category, None when it has no catassign
Card(character, category) == [character |-> character, category |-> category]

\* _convert_to_list: a value that is not a list becomes a list of one
_convert_to_list(value) ==
    IF value.tag = "list" THEN value.list ELSE <<value.str>>

\* the keyword compared with the whole category
any_keyword_equals(category_lower, kws) ==
    \E i \in 1..Len(kws) : kws[i] = category_lower

\* any(keyword in category_lower for keyword in keywords)
any_keyword_in(category_lower, kws) ==
    \E i \in 1..Len(kws) : Contains(category_lower, kws[i])

\* the loop of lines 163-168 over the cards, kws being the keywords in lower
\* case
RECURSIVE filter_cards(_, _)
filter_cards(cs, kws) ==
    IF cs = <<>> THEN <<>>
    ELSE LET card == Head(cs)
             skip == /\ Truthy(card.category)
                     /\ any_keyword_in(lower(card.category.str), kws)
         IN (IF skip THEN <<>> ELSE <<card>>) \o filter_cards(Tail(cs), kws)

\* remove_cards_by_categories: self.cards once it has returned
remove_cards_by_categories(cs, kwarg) ==
    LET kws == _convert_to_list(kwarg)
    IN filter_cards(cs, [i \in 1..Len(kws) |-> lower(kws[i])])

(***************************************************************************)
(* The environment of one run of main                                      *)
(***************************************************************************)
\* a file of the disk: absent, holding the JSON of a store, or cut short by a
\* write that failed after open(path, "w") had truncated it
Absent == [state |-> "absent"]
Json(store) == [state |-> "json", data |-> store]
Truncated == [state |-> "truncated"]

wA == <<"a">>
wB == <<"b">>
wX == <<"x">>
wN == <<"N">>
wNH == <<"N", "H">>

\* the result container the dictionary site serves for a word: a list of one
\* item, an empty list item (b, NH), a plain span between the fallback
\* markers, a container without any marker, or no container at all
NoContainer == <<"?">>
SiteOf(word) ==
    CASE word = wA -> EntreesPour \o wA \o LiOpen \o <<"t">> \o LiClose \o EntreesCommencantPar
      [] word = wB -> EntreesPour \o wB \o LiOpen \o LiClose \o EntreesCommencantPar
      [] word = wX -> Traduction \o <<"<", "b", ">", "t">> \o EditerCfdict
      [] word = wN -> <<"<", "b", ">", "N">>
      [] word = wNH -> EntreesPour \o wNH \o LiOpen \o LiClose \o EntreesCommencantPar
      [] OTHER -> NoContainer

\* the text of the translation service's result-container for a word, when
\* its page has one
GoogleOf(word) ==
    CASE word = wB -> <<"g">>
      [] word = wNH -> NoContainer
      [] OTHER -> <<>>

\* pinyin.get(s=query, delimiter=" "): a non-empty transcription of a word
get_pinyin(query) == <<"'">> \o query

\* what the transport of one request does
Transports == {"ok", "RequestException", "ConnectionError"}

NoExc == [type |-> "none"]
Exc(t, m, c) == [type |-> t, msg |-> m, cause |-> c]

(***************************************************************************)
(* main, lines 141-150: one iteration of the Resolve loop on one entry.    *)
(* primary and secondary are what the two translation lookups do when      *)
(* called. The result is the entry as the iteration leaves it, the         *)
(* exception it raised (or NoExc) and the lookups it called, in order.     *)
(***************************************************************************)
\* ChineInTranslator(word).return_traduction(), with its request: the
\* transport may fail, results[0] raises IndexError when no container is found
chine_in(word, transport) ==
    IF transport /= "ok" THEN Raise(transport)
    ELSE IF SiteOf(word) = NoContainer THEN Raise("IndexError")
    ELSE return_traduction(word, SiteOf(word))

\* google_traduction_extractor(word): [element.text]; soup.find returns None
\* when the page has no result-container, and None.text raises AttributeError
google_traduction_extractor(word, transport) ==
    IF transport /= "ok" THEN Raise(transport)
    ELSE IF GoogleOf(word) = NoContainer THEN Raise("AttributeError")
    ELSE Return(<<GoogleOf(word)>>)

\* a lookup the run called: the function, its word and what it did
Call(fn, word, out) == [fn |-> fn, word |-> word, out |-> out]

\* the test of line 143 left out: every entry is looked up
needs_traduction_always(vocab) == TRUE

\* line 143: vocab["traduction"] == [""]; line 149: not vocab["pronunciation"]
needs_traduction(vocab) == vocab.traduction = NoTraduction
needs_pronunciation(vocab) == vocab.pronunciation = <<>>

\* line 146: the primary's result sends the word to the secondary
is_unresolved(traduction) == traduction = NoTraduction

ResolveIteration(vocab, primary, secondary, pinyin_ok) ==
    LET word == vocab.character
        needT == needs_traduction(vocab)
        fallback == needT /\ ~primary.raised /\ is_unresolved(primary.value)
        tExc == IF ~needT THEN NoExc
                ELSE IF primary.raised THEN Exc(primary.type, "", NoExc)
                ELSE IF fallback /\ secondary.raised THEN Exc(secondary.type, "", NoExc)
                ELSE NoExc
        tVal == IF ~needT \/ tExc /= NoExc THEN vocab.traduction
                ELSE IF fallback THEN secondary.value ELSE primary.value
        needP == tExc = NoExc /\ needs_pronunciation(vocab)
        pExc == IF needP /\ ~pinyin_ok THEN Exc("Exception", "", NoExc) ELSE NoExc
        pVal == IF needP /\ pExc = NoExc THEN get_pinyin(word) ELSE vocab.pronunciation
    IN [entry |-> Entry(word, tVal, pVal),
        exc |-> IF tExc /= NoExc THEN tExc ELSE pExc,
        calls |-> (IF needT THEN <<Call("chine_in", word, primary)>> ELSE <<>>)
                  \o (IF fallback THEN <<Call("google", word, secondary)>> ELSE <<>>)
                  \o (IF needP
                      THEN <<Call("get_pinyin", word,
                                  IF pinyin_ok THEN Return(get_pinyin(word))
                                  ELSE Raise("Exception"))>>
                      ELSE <<>>)]

\* every outcome the iteration on all_vocab[i + 1] may have, over what the
\* transport of each request does and whether get_pinyin raises
Iterations(vocab) ==
    { ResolveIteration(vocab, primary, secondary, pinyin_ok) :
        primary \in {chine_in(vocab.character, t) : t \in Transports},
        secondary \in {google_traduction_extractor(vocab.character, t) : t \in Transports},
        pinyin_ok \in BOOLEAN }

\* the error the handler raises from e once the checkpoint is written
SavedConnection == "Failed to fetch data. Progress has been saved."
SavedRuntime == "An error occurred. Progress has been saved."
ProgressSaved(e) ==
    IF e.type = "ConnectionError"
    THEN Exc("ConnectionError", SavedConnection, e)
    ELSE Exc("RuntimeError", SavedRuntime, e)

\* Save.save_json(file, path): what the file holds once the call returned, and
\* what it may hold when open or json.dump raised
save_json(file) == Json(file)
SaveFailed(old) == {old, Truncated}

(***************************************************************************)
(* The inputs of a run                                                     *)
(***************************************************************************)
\* the most documents data/raw holds
MaxDocs == 2

\* a token of 12 letters, and one of 11
Twelve == <<"a", "a", "a", "a", "a", "a", "a", "a", "a", "a", "a", "a">>
Eleven == Tail(Twelve)

\* the texts a lesson document may hold
Texts == { <<>>,
           <<"a", " ", "b", ",">>,
           <<"b", " ", "a", " ", "a">>,
           <<"a", "2", "0", "2", "4", " ", "-", "x", "-">>,
           <<"N", "-">>,
           <<"N", "H", " ", "2", "0", "2", "4", " ", " ">> \o Twelve \o <<" ", "x">>,
           Eleven }

\* data/raw: its .docx files, named 1..k, with their texts
Folders == UNION {[1..k -> Texts] : k \in 0..MaxDocs}

\* data/processed/chinese_vocab.json before the run: its characters are unique
InitialFiles ==
    { Absent,
      Json(<<>>),
      Json(<<Entry(wA, <<<<"o">>>>, <<"'", "a">>)>>),
      Json(<<Entry(wB, NoTraduction, NoPronunciation), Entry(wX, <<<<"o">>>>, NoPronunciation)>>) }

\* sorted(File.file_name("docx", folder_path)): listdir's order is arbitrary
RECURSIVE sorted(_)
sorted(names) ==
    IF names = {} THEN <<>>
    ELSE LET least == CHOOSE n \in names : \A m \in names : n <= m
         IN <<least>> \o sorted(names \ {least})

VARIABLES
    \* one run of main
    pc,               \* where main is: Load, Extract, Resolve, Returned, Raised
    folder,           \* data/raw
    processed_file,   \* data/processed/chinese_vocab.json
    checkpoint_file,  \* data/interim/chinese_vocab_checkpoint.json
    all_vocab,        \* existing_vocab / processor.vocab / all_vocab: one list object
    list_characters,  \* the set main builds from the loaded store
    files_name,       \* processor.files_name
    file_index,       \* how many files build_vocab_list has read
    index,            \* the Resolve loop's index
    requests,         \* the lookups called by the run, in order
    exc,              \* the exception main ended with, or NoExc
    saved_paths,      \* the paths Save.save_json was called with by the run
    run,              \* which run of main this is, counted from 1
    \* one use of ChineInTranslator on its own
    query,            \* self.query
    framing,          \* the marker pair around the span in the container
    span,             \* the pieces of markup between the markers
    outcome,          \* what return_traduction did, once it was called
    \* the marker search on its own
    result,           \* the text searched: str(results_raw) or its plain text
    start_marker,
    end_marker,
    extracted,        \* what extract_between_markers returned, once called
    traduction,       \* what get_traduction returned, once called
    \* DefinitionParser on its own
    definition,       \* the argument of parse_definition
    text,             \* the argument of _split_definitions
    parsed_data,      \* what parse_definition returned, once called
    definitions,      \* what _split_definitions returned, once called
    \* one use of CardManager
    cards_pc,         \* where the use is: Load, Remove, Done
    xml_cards,        \* the cards of the XML file
    cards,            \* self.cards
    keywords,         \* the argument of remove_cards_by_categories, once called
    \* one iteration of the loop of dataset.main
    dataset_pc,       \* Loop, Stored, Raised
    word_entry,       \* all_vocab[word]
    pinyin            \* what TraductionExtractor.get_pinyin returned, once called

mainVars == <<pc, folder, processed_file, checkpoint_file, all_vocab,
              list_characters, files_name, file_index, index, requests, exc,
              saved_paths, run>>
scrapeVars == <<query, framing, span, outcome>>
markerVars == <<result, start_marker, end_marker, extracted, traduction>>
parserVars == <<definition, text, parsed_data, definitions>>
cardVars == <<cards_pc, xml_cards, cards, keywords>>
datasetVars == <<dataset_pc, word_entry, pinyin>>
vars == <<mainVars, scrapeVars, markerVars, parserVars, cardVars, datasetVars>>

\* the variables a run of main leaves alone
notMainVars == <<scrapeVars, markerVars, parserVars, cardVars, datasetVars>>

NotCalled == [called |-> FALSE]
ScrapeIdle == query = <<>> /\ framing = "none" /\ span = <<>> /\ outcome = NotCalled
MarkerIdle ==
    /\ result = <<>>
    /\ start_marker = <<>>
    /\ end_marker = <<>>
    /\ extracted = NotCalled
    /\ traduction = NotCalled
ParserIdle ==
    /\ definition = <<>>
    /\ text = <<>>
    /\ parsed_data = NotCalled
    /\ definitions = NotCalled
CardsIdle ==
    /\ cards_pc = "Idle"
    /\ xml_cards = <<>>
    /\ cards = <<>>
    /\ keywords = NotCalled
DatasetIdle ==
    /\ dataset_pc = "Idle"
    /\ word_entry = EmptyDict
    /\ pinyin = NotCalled

Init ==
    /\ pc = "Load"
    /\ folder \in Folders
    /\ processed_file \in InitialFiles
    /\ checkpoint_file = Absent
    /\ all_vocab = <<>>
    /\ list_characters = {}
    /\ files_name = <<>>
    /\ file_index = 0
    /\ index = 0
    /\ requests = <<>>
    /\ exc = NoExc
    /\ saved_paths = {}
    /\ run = 1
    /\ ScrapeIdle
    /\ MarkerIdle
    /\ ParserIdle
    /\ CardsIdle
    /\ DatasetIdle

\* the store read from the checkpoint file when there is one
LoadCheckpoint ==
    /\ pc = "Load"
    /\ processed_file /= Truncated
    /\ LET existing_vocab == IF checkpoint_file.state = "json"
                             THEN checkpoint_file.data
                             ELSE IF processed_file.state = "json"
                             THEN processed_file.data ELSE <<>>
       IN /\ all_vocab' = existing_vocab
          /\ list_characters' =
                {existing_vocab[i].character : i \in 1..Len(existing_vocab)}
    /\ files_name' = sorted(DOMAIN folder)
    /\ pc' = "Extract"
    /\ UNCHANGED <<folder, processed_file, checkpoint_file, file_index, index,
                   requests, exc, saved_paths>>

\* main, lines 118-134: read the primary file or start empty, collect the known
\* characters, construct the processor (which lists and sorts the folder)
Load ==
    /\ pc = "Load"
    /\ processed_file /= Truncated
    /\ LET existing_vocab == IF processed_file.state = "json"
                             THEN processed_file.data ELSE <<>>
       IN /\ all_vocab' = existing_vocab
          /\ list_characters' =
                {existing_vocab[i].character : i \in 1..Len(existing_vocab)}
    /\ files_name' = sorted(DOMAIN folder)
    /\ pc' = "Extract"
    /\ UNCHANGED <<folder, processed_file, checkpoint_file, file_index, index,
                   requests, exc, saved_paths>>

\* build_vocab_list: one pass of its loop over one file; after the last file it
\* returns the store and main enters the Resolve loop
BuildVocabFile ==
    /\ pc = "Extract"
    /\ file_index < Len(files_name)
    /\ all_vocab' = vocab_list(list_characters, all_vocab,
                               folder[files_name[file_index + 1]])
    /\ file_index' = file_index + 1
    /\ pc' = IF file_index + 1 = Len(files_name) THEN "Resolve" ELSE "Extract"
    /\ UNCHANGED <<folder, processed_file, checkpoint_file, list_characters,
                   files_name, index, requests, exc, saved_paths>>

\* build_vocab_list over no file: the loop never binds vocab, and return vocab
\* raises UnboundLocalError outside main's try
BuildVocabNoFile ==
    /\ pc = "Extract"
    /\ Len(files_name) = 0
    /\ pc' = "Raised"
    /\ exc' = Exc("UnboundLocalError", "", NoExc)
    /\ UNCHANGED <<folder, processed_file, checkpoint_file, all_vocab,
                   list_characters, files_name, file_index, index, requests,
                   saved_paths>>

\* main, lines 141-150: an iteration that raises nothing
ResolveEntry ==
    /\ pc = "Resolve"
    /\ index < Len(all_vocab)
    /\ \E o \in Iterations(all_vocab[index + 1]) :
          /\ o.exc = NoExc
          /\ all_vocab' = [all_vocab EXCEPT ![index + 1] = o.entry]
          /\ requests' = requests \o o.calls
    /\ index' = index + 1
    /\ UNCHANGED <<pc, folder, processed_file, checkpoint_file, list_characters,
                   files_name, file_index, exc, saved_paths>>

\* the handler saving only the entries the loop has passed
ResolveRaiseCheckpointPassed ==
    /\ pc = "Resolve"
    /\ index < Len(all_vocab)
    /\ \E o \in Iterations(all_vocab[index + 1]) :
          /\ o.exc /= NoExc
          /\ all_vocab' = [all_vocab EXCEPT ![index + 1] = o.entry]
          /\ requests' = requests \o o.calls
          /\ exc' = ProgressSaved(o.exc)
    /\ checkpoint_file' = save_json(SubSeq(all_vocab', 1, index))
    /\ pc' = "Raised"
    /\ saved_paths' = saved_paths \cup {"checkpoint"}
    /\ UNCHANGED <<folder, processed_file, list_characters, files_name,
                   file_index, index>>

\* main, lines 141-158: an iteration that raises; the handler writes the
\* checkpoint and raises the "progress saved" error from the exception
ResolveRaiseCheckpoint ==
    /\ pc = "Resolve"
    /\ index < Len(all_vocab)
    /\ \E o \in Iterations(all_vocab[index + 1]) :
          /\ o.exc /= NoExc
          /\ all_vocab' = [all_vocab EXCEPT ![index + 1] = o.entry]
          /\ requests' = requests \o o.calls
          /\ exc' = ProgressSaved(o.exc)
    /\ checkpoint_file' = save_json(all_vocab')
    /\ pc' = "Raised"
    /\ saved_paths' = saved_paths \cup {"checkpoint"}
    /\ UNCHANGED <<folder, processed_file, list_characters, files_name,
                   file_index, index>>

\* the same, when Save.save_json itself raises inside the handler: the OSError
\* leaves main in place of the "progress saved" error
ResolveRaiseSaveFails ==
    /\ pc = "Resolve"
    /\ index < Len(all_vocab)
    /\ \E o \in Iterations(all_vocab[index + 1]) :
          /\ o.exc /= NoExc
          /\ all_vocab' = [all_vocab EXCEPT ![index + 1] = o.entry]
          /\ requests' = requests \o o.calls
          /\ exc' = Exc("OSError", "", o.exc)
    /\ checkpoint_file' \in SaveFailed(checkpoint_file)
    /\ pc' = "Raised"
    /\ saved_paths' = saved_paths \cup {"checkpoint"}
    /\ UNCHANGED <<folder, processed_file, list_characters, files_name,
                   file_index, index>>

\* the final store written to the checkpoint path
PersistToCheckpoint ==
    /\ pc = "Resolve"
    /\ index = Len(all_vocab)
    /\ checkpoint_file' = save_json(all_vocab)
    /\ pc' = "Returned"
    /\ saved_paths' = saved_paths \cup {"checkpoint"}
    /\ UNCHANGED <<folder, processed_file, all_vocab, list_characters,
                   files_name, file_index, index, requests, exc>>

\* the final store written to both paths
PersistBoth ==
    /\ pc = "Resolve"
    /\ index = Len(all_vocab)
    /\ processed_file' = save_json(all_vocab)
    /\ checkpoint_file' = save_json(all_vocab)
    /\ pc' = "Returned"
    /\ saved_paths' = saved_paths \cup {"processed", "checkpoint"}
    /\ UNCHANGED <<folder, all_vocab, list_characters, files_name, file_index,
                   index, requests, exc>>

\* main, line 160, after the loop: the final store goes to the primary file
Persist ==
    /\ pc = "Resolve"
    /\ index = Len(all_vocab)
    /\ processed_file' = save_json(all_vocab)
    /\ pc' = "Returned"
    /\ saved_paths' = saved_paths \cup {"processed"}
    /\ UNCHANGED <<folder, checkpoint_file, all_vocab, list_characters,
                   files_name, file_index, index, requests, exc>>

\* line 160 when Save.save_json raises: nothing catches it
PersistFails ==
    /\ pc = "Resolve"
    /\ index = Len(all_vocab)
    /\ processed_file' \in SaveFailed(processed_file)
    /\ exc' = Exc("OSError", "", NoExc)
    /\ pc' = "Raised"
    /\ saved_paths' = saved_paths \cup {"processed"}
    /\ UNCHANGED <<folder, checkpoint_file, all_vocab, list_characters,
                   files_name, file_index, index, requests>>

Next ==
    \/ Load /\ UNCHANGED <<run, notMainVars>>
    \/ BuildVocabFile /\ UNCHANGED <<run, notMainVars>>
    \/ BuildVocabNoFile /\ UNCHANGED <<run, notMainVars>>
    \/ ResolveEntry /\ UNCHANGED <<run, notMainVars>>
    \/ ResolveRaiseCheckpoint /\ UNCHANGED <<run, notMainVars>>
    \/ ResolveRaiseSaveFails /\ UNCHANGED <<run, notMainVars>>
    \/ Persist /\ UNCHANGED <<run, notMainVars>>
    \/ PersistFails /\ UNCHANGED <<run, notMainVars>>

Spec == Init /\ [][Next]_vars

(***************************************************************************)
(* Runs of main one after the other over the same folder and files         *)
(***************************************************************************)
\* the most runs of main
MaxRuns == 2

\* main, lines 124-126: the primary file exists and does not hold JSON (a
\* write of line 160 that raised left it so); json.load raises outside the try
LoadFails ==
    /\ pc = "Load"
    /\ processed_file = Truncated
    /\ pc' = "Raised"
    /\ exc' = Exc("JSONDecodeError", "", NoExc)
    /\ UNCHANGED <<folder, processed_file, checkpoint_file, all_vocab,
                   list_characters, files_name, file_index, index, requests,
                   saved_paths>>

\* lines 163-164: the module is run again once main returned or raised; the
\* new process keeps nothing of the last one but the folder and the two files
MainAgain ==
    /\ pc \in {"Returned", "Raised"}
    /\ run < MaxRuns
    /\ run' = run + 1
    /\ pc' = "Load"
    /\ all_vocab' = <<>>
    /\ list_characters' = {}
    /\ files_name' = <<>>
    /\ file_index' = 0
    /\ index' = 0
    /\ requests' = <<>>
    /\ exc' = NoExc
    /\ saved_paths' = {}
    /\ UNCHANGED <<folder, processed_file, checkpoint_file>>

NextRuns ==
    \/ Next
    \/ LoadFails /\ UNCHANGED <<run, notMainVars>>
    \/ MainAgain /\ UNCHANGED notMainVars

SpecRuns == Init /\ [][NextRuns]_vars

(***************************************************************************)
(* ChineInTranslator on its own: return_traduction over the containers the *)
(* site may serve, from line 186 on (the container has been fetched)       *)
(***************************************************************************)
\* the most pieces of markup a translation span holds
MaxPieces == 3

BoldOpen == <<"<", "b", ">">>
BoldClose == <<"<", "/", "b", ">">>

\* pieces of markup of a translation span: list items, markup outside a list
\* item, plain text
LiOne == LiOpen \o <<"o", "n", "e">> \o LiClose
LiTwo == LiOpen \o <<"t", "w", "o">> \o LiClose
LiBold == LiOpen \o BoldOpen \o <<"a">> \o BoldClose \o <<"\n">> \o LiClose
LiEmpty == LiOpen \o LiClose
Bold == BoldOpen \o <<"a", "b">> \o BoldClose
Plain == <<"a">>
ListItems == {LiOne, LiTwo, LiBold, LiEmpty}
Pieces == ListItems \cup {Bold, Plain}

\* what a piece reads as once its tags are taken out
TextOf(piece) ==
    CASE piece = LiOne -> <<"o", "n", "e">>
      [] piece = LiTwo -> <<"t", "w", "o">>
      [] piece = LiBold -> <<"a", "\n">>
      [] piece = LiEmpty -> <<>>
      [] piece = Bold -> <<"a", "b">>
      [] piece = Plain -> <<"a">>

RECURSIVE Flatten(_)
Flatten(ss) == IF ss = <<>> THEN <<>> ELSE Head(ss) \o Flatten(Tail(ss))

Spans == UNION {[1..n -> Pieces] : n \in 0..MaxPieces}
Framings == {"primary", "fallback", "none"}
Queries == {<<"N", "H">>, <<"a">>}

\* str(results_raw): the serialized container, the span between the marker
\* pair the page uses, or between none
Container(q, f, sp) ==
    CASE f = "primary" -> EntreesPour \o q \o Flatten(sp) \o EntreesCommencantPar
      [] f = "fallback" -> Traduction \o Flatten(sp) \o EditerCfdict
      [] f = "none" -> Flatten(sp)

MainIdle ==
    /\ pc = "Idle"
    /\ folder = <<>>
    /\ processed_file = Absent
    /\ checkpoint_file = Absent
    /\ all_vocab = <<>>
    /\ list_characters = {}
    /\ files_name = <<>>
    /\ file_index = 0
    /\ index = 0
    /\ requests = <<>>
    /\ exc = NoExc
    /\ saved_paths = {}
    /\ run = 1

InitScrape ==
    /\ MainIdle
    /\ MarkerIdle
    /\ ParserIdle
    /\ CardsIdle
    /\ DatasetIdle
    /\ query \in Queries
    /\ framing \in Framings
    /\ span \in Spans
    /\ outcome = NotCalled

ReturnTraduction ==
    /\ outcome = NotCalled
    /\ outcome' = return_traduction(query, Container(query, framing, span))
    /\ UNCHANGED <<query, framing, span, mainVars, markerVars, parserVars,
                   cardVars, datasetVars>>

NextScrape == ReturnTraduction

SpecScrape == InitScrape /\ [][NextScrape]_vars

(***************************************************************************)
(* The marker search on its own: extract_between_markers over short texts  *)
(* and short markers, and get_traduction over the pages the site may       *)
(* serve, which hold each marker pair or not                               *)
(***************************************************************************)
\* the longest of the short texts
MaxBody == 5

Bodies == UNION {[1..n -> {"a", "b"}] : n \in 0..MaxBody}

\* short marker pairs <<start_marker, end_marker>>; the end marker is optional
ShortMarkers ==
    {<<"a">>, <<"a", "b">>} \X {<<>>, <<"b">>, <<"b", "a">>}

\* the marker pair of the pronunciation: "[ " and "]"
PinyinOpen == <<"[", " ">>
PinyinClose == <<"]">>

\* what a page holds for a marker pair: nothing, the start marker and a span
\* without the end marker, the two markers with nothing between them, or the
\* two markers around a span
BlockKinds == {"absent", "open", "empty", "full"}
Block(start, sp, end, kind) ==
    CASE kind = "absent" -> <<>>
      [] kind = "open" -> start \o sp
      [] kind = "empty" -> start \o end
      [] kind = "full" -> start \o sp \o end

\* the pages of a word: its entries, the translation block and the
\* pronunciation, the first two in either order
Pages(q) ==
    { IF primaryFirst
      THEN <<".">> \o Block(EntreesPour \o q, <<"A", "B", "C">>, EntreesCommencantPar, p)
                   \o Block(PinyinOpen, <<"n", "i">>, PinyinClose, y)
                   \o Block(Traduction, LiOne, EditerCfdict, f) \o <<".">>
      ELSE <<".">> \o Block(Traduction, LiOne, EditerCfdict, f)
                   \o Block(PinyinOpen, <<"n", "i">>, PinyinClose, y)
                   \o Block(EntreesPour \o q, <<"A", "B", "C">>, EntreesCommencantPar, p)
                   \o <<".">> :
        p \in BlockKinds, f \in BlockKinds, y \in BlockKinds,
        primaryFirst \in BOOLEAN }

\* the marker pairs the program searches a page for
SiteMarkers(q) ==
    { <<EntreesPour \o q, EntreesCommencantPar>>,
      <<Traduction, EditerCfdict>>,
      <<PinyinOpen, PinyinClose>> }

InitMarkers ==
    /\ MainIdle
    /\ ParserIdle
    /\ CardsIdle
    /\ DatasetIdle
    /\ framing = "none" /\ span = <<>> /\ outcome = NotCalled
    /\ query \in Queries
    /\ \/ /\ result \in Bodies
          /\ \E pair \in ShortMarkers :
                start_marker = pair[1] /\ end_marker = pair[2]
       \/ /\ result \in Pages(query)
          /\ \E pair \in SiteMarkers(query) :
                start_marker = pair[1] /\ end_marker = pair[2]
    /\ extracted = NotCalled
    /\ traduction = NotCalled

ExtractBetweenMarkers ==
    /\ extracted = NotCalled
    /\ extracted' = Return(extract_between_markers(result, start_marker, end_marker))
    /\ UNCHANGED <<result, start_marker, end_marker, traduction, mainVars,
                   scrapeVars, parserVars, cardVars, datasetVars>>

GetTraduction ==
    /\ traduction = NotCalled
    /\ traduction' = Return(get_traduction(query, result))
    /\ UNCHANGED <<result, start_marker, end_marker, extracted, mainVars,
                   scrapeVars, parserVars, cardVars, datasetVars>>

NextMarkers ==
    \/ ExtractBetweenMarkers
    \/ GetTraduction

SpecMarkers == InitMarkers /\ [][NextMarkers]_vars

(***************************************************************************)
(* DefinitionParser on its own: parse_definition over definitions made of  *)
(* a few words, and _split_definitions over short texts                    *)
(***************************************************************************)
\* the most words of a definition, and the most characters of a short text
MaxTokens == 3
MaxChars == 5

Noun == <<"n", "o", "u", "n">>
Verb == <<"V", "e", "r", "b">>
Pronoun == <<"p", "r", "o", "n", "o", "u", "n">>
Space == <<" ">>

\* the words of a definition: labels in either case, words that hold a label
\* without being one, numbers, a sentence, a word
Tokens ==
    { Noun, Verb, Pronoun, Noun \o <<"1">>, <<"1">>, <<"1", "1">>,
      <<"a", ".">>, <<"b">> }

\* " ".join(words)
RECURSIVE Join(_)
Join(words) ==
    IF words = <<>> THEN <<>>
    ELSE IF Len(words) = 1 THEN Head(words)
    ELSE Head(words) \o Space \o Join(Tail(words))

\* "noun 1 a tree. Example one. Example two. verb 2 to grow."
TreeDefinition ==
    Noun \o <<" ", "1", " ", "a", " ", "t", "r", "e", "e", ".", " ">>
         \o <<"E", "x", "a", "m", "p", "l", "e", " ", "o", "n", "e", ".", " ">>
         \o <<"E", "x", "a", "m", "p", "l", "e", " ", "t", "w", "o", ".", " ">>
         \o <<"v", "e", "r", "b", " ", "2", " ", "t", "o", " ", "g", "r", "o", "w", ".">>

\* "a random phrase"
RandomPhrase ==
    <<"a", " ", "r", "a", "n", "d", "o", "m", " ", "p", "h", "r", "a", "s", "e">>

\* "Noun a verb b NOUN c", "noun\tx\nverb", "un-noun."
NounVerbNoun ==
    <<"N", "o", "u", "n", " ", "a", " ", "v", "e", "r", "b", " ", "b", " ",
      "N", "O", "U", "N", " ", "c">>
NounTabVerb == Noun \o <<"\t", "x", "\n", "v", "e", "r", "b">>
UnNoun == <<"u", "n", "-">> \o Noun \o <<".">>

Definitions ==
    {Join(words) : words \in UNION {[1..n -> Tokens] : n \in 0..MaxTokens}}
    \cup {TreeDefinition, RandomPhrase, NounVerbNoun, NounTabVerb, UnNoun}

\* "12 foo", "1\n2 x", "x 12\ty.  z"
TwelveFoo == <<"1", "2", " ", "f", "o", "o">>
OneBreakTwo == <<"1", "\n", "2", " ", "x">>
TabbedText == <<"x", " ", "1", "2", "\t", "y", ".", " ", " ", "z">>

SubEntryTexts ==
    UNION {[1..n -> {"1", " ", "a", "."}] : n \in 0..MaxChars}
    \cup {TwelveFoo, OneBreakTwo, TabbedText}

InitParser ==
    /\ MainIdle
    /\ ScrapeIdle
    /\ MarkerIdle
    /\ CardsIdle
    /\ DatasetIdle
    /\ \/ definition \in Definitions /\ text = <<>>
       \/ definition = <<>> /\ text \in SubEntryTexts
    /\ parsed_data = NotCalled
    /\ definitions = NotCalled

ParseDefinition ==
    /\ parsed_data = NotCalled
    /\ parsed_data' = Return(parse_definition(definition))
    /\ UNCHANGED <<definition, text, definitions, mainVars, scrapeVars,
                   markerVars, cardVars, datasetVars>>

SplitDefinitions ==
    /\ definitions = NotCalled
    /\ definitions' = Return(_split_definitions(text))
    /\ UNCHANGED <<definition, text, parsed_data, mainVars, scrapeVars,
                   markerVars, cardVars, datasetVars>>

NextParser ==
    \/ ParseDefinition
    \/ SplitDefinitions

SpecParser == InitParser /\ [][NextParser]_vars

(***************************************************************************)
(* One use of CardManager: the cards are loaded from the XML file, then    *)
(* remove_cards_by_categories is called                                    *)
(***************************************************************************)
\* the most cards of the XML file
MaxCards == 3

Cours1 == <<"C", "o", "u", "r", "s", "1">>
Cours1Basics == Cours1 \o <<" ", "B", "a", "s", "i", "c", "s">>
cours10 == <<"c", "o", "u", "r", "s", "1", "0">>
Bo == <<"B", "o">>

\* the cards of a file: without catassign, with an empty category, and with
\* the categories "Cours1 Basics", "cours10" and "Bo"
XmlCard ==
    { Card(<<"n">>, PyNone), Card(<<"e">>, PyStr(<<>>)),
      Card(<<"a">>, PyStr(Cours1Basics)), Card(<<"b">>, PyStr(cours10)),
      Card(<<"x">>, PyStr(Bo)) }
XmlFiles == UNION {[1..n -> XmlCard] : n \in 0..MaxCards}

\* the keywords argument: one keyword or a list of keywords
KeywordArgs ==
    { PyStr(Cours1), PyStr(lower(cours10)), PyStr(<<"O">>), PyStr(<<>>),
      PyList(<<>>), PyList(<<Cours1 \o Space, <<"b", "O">> >>) }

InitCards ==
    /\ MainIdle
    /\ ScrapeIdle
    /\ MarkerIdle
    /\ ParserIdle
    /\ DatasetIdle
    /\ cards_pc = "Load"
    /\ xml_cards \in XmlFiles
    /\ cards = <<>>
    /\ keywords = NotCalled

\* load_cards_from_xml: one card appended per card element, in file order
LoadCardsFromXml ==
    /\ cards_pc = "Load"
    /\ cards' = cards \o xml_cards
    /\ cards_pc' = "Remove"
    /\ UNCHANGED <<xml_cards, keywords, mainVars, scrapeVars, markerVars,
                   parserVars, datasetVars>>

RemoveCardsByCategories ==
    /\ cards_pc = "Remove"
    /\ \E kwarg \in KeywordArgs :
          /\ keywords' = kwarg
          /\ cards' = remove_cards_by_categories(cards, kwarg)
    /\ cards_pc' = "Done"
    /\ UNCHANGED <<xml_cards, mainVars, scrapeVars, markerVars, parserVars,
                   datasetVars>>

NextCards ==
    \/ LoadCardsFromXml
    \/ RemoveCardsByCategories

SpecCards == InitCards /\ [][NextCards]_vars

(***************************************************************************)
(* src/dataset.py: one iteration of the loop of main on one word, with     *)
(* TraductionExtractor (src/chinese/scraping_chine_in.py), whose           *)
(* return_traduction is that of ChineInTranslator line for line            *)
(***************************************************************************)
\* results_raw.get_text(): the text of the container without its tags; a
\* character is in a tag when a "<" at or before it is closed by the first ">"
\* found from there, at or after the character
InTag(markup, i) ==
    \E j \in 1..i :
        /\ markup[j] = "<"
        /\ Find(markup, <<">">>, j) /= -1
        /\ Find(markup, <<">">>, j) + 1 >= i
get_text(markup) ==
    LET kept == SelectSeq([i \in 1..Len(markup) |-> <<i, markup[i]>>],
                          LAMBDA c : ~InTag(markup, c[1]))
    IN [k \in 1..Len(kept) |-> kept[k][2]]

\* fetch_results: the request may fail, results[0] raises IndexError when the
\* page has no container; else results_raw and results_processed are set
fetch_results(transport, container) ==
    IF transport /= "ok" THEN Raise(transport)
    ELSE IF container = NoContainer THEN Raise("IndexError")
    ELSE Return([results_raw |-> container, results_processed |-> get_text(container)])

\* TraductionExtractor.get_pinyin
extractor_get_pinyin(results_processed) ==
    extract_between_markers(results_processed, PinyinOpen, PinyinClose)

\* lines 31-37 on one word: the entry as the iteration leaves it, what
\* get_pinyin returned if it was called, and the exception raised if any
dataset_iteration(word, entry, fetched) ==
    IF entry /= EmptyDict
    THEN [exc |-> NoExc, entry |-> entry, pinyin |-> NotCalled]
    ELSE IF fetched.raised
    THEN [exc |-> Exc(fetched.type, "", NoExc), entry |-> entry, pinyin |-> NotCalled]
    ELSE LET returned == return_traduction(word, fetched.value.results_raw)
             got == extractor_get_pinyin(fetched.value.results_processed)
         IN IF returned.raised
            THEN [exc |-> Exc(returned.type, "", NoExc), entry |-> entry,
                  pinyin |-> NotCalled]
            ELSE [exc |-> NoExc,
                  entry |-> dict_set(dict_set(entry, "traduction", returned.value),
                                     "pinyin", got),
                  pinyin |-> Return(got)]

\* an entry resolved by an earlier run
ResolvedEntry ==
    dict_set(dict_set(EmptyDict, "traduction", << <<"o">> >>), "pinyin", PyStr(<<"o">>))

InitDataset ==
    /\ MainIdle
    /\ ParserIdle
    /\ CardsIdle
    /\ framing = "none" /\ span = <<>> /\ outcome = NotCalled
    /\ start_marker = <<>> /\ end_marker = <<>>
    /\ extracted = NotCalled /\ traduction = NotCalled
    /\ query \in Queries
    /\ result \in Pages(query) \cup {NoContainer}
    /\ dataset_pc = "Loop"
    /\ word_entry \in {EmptyDict, ResolvedEntry}
    /\ pinyin = NotCalled

\* an iteration that raises nothing: the loop goes on to the next word
DatasetIteration ==
    /\ dataset_pc = "Loop"
    /\ \E o \in {dataset_iteration(query, word_entry, fetch_results(t, result)) :
                    t \in Transports} :
          /\ o.exc = NoExc
          /\ word_entry' = o.entry
          /\ pinyin' = o.pinyin
    /\ dataset_pc' = "Next"
    /\ UNCHANGED <<mainVars, scrapeVars, markerVars, parserVars, cardVars>>

\* an iteration that raises: the except clauses of lines 38-45 take over (they
\* call save_progress and raise a "progress saved" error)
DatasetIterationRaises ==
    /\ dataset_pc = "Loop"
    /\ \E o \in {dataset_iteration(query, word_entry, fetch_results(t, result)) :
                    t \in Transports} :
          /\ o.exc /= NoExc
          /\ word_entry' = o.entry
          /\ pinyin' = o.pinyin
    /\ dataset_pc' = "Raised"
    /\ UNCHANGED <<mainVars, scrapeVars, markerVars, parserVars, cardVars>>

NextDataset ==
    \/ DatasetIteration
    \/ DatasetIterationRaises

SpecDataset == InitDataset /\ [][NextDataset]_vars

(***************************************************************************)
(* Properties of one run of main (Spec)                                    *)
(***************************************************************************)
Last(l) == l[Len(l)]
Characters(store) == {store[i].character : i \in 1..Len(store)}

\* the store main loaded: the primary file is not written before line 160
Loaded == IF processed_file.state = "json" THEN processed_file.data ELSE <<>>

\* build_vocab_list over the texts of the folder, in the order of files_name
RECURSIVE build_vocab_list(_, _, _)
build_vocab_list(list_chars, vocab, texts) ==
    IF texts = <<>> THEN vocab
    ELSE build_vocab_list(list_chars, vocab_list(list_chars, vocab, Head(texts)),
                          Tail(texts))

\* the store as Extract hands it to Resolve
Extracted ==
    build_vocab_list(Characters(Loaded), Loaded,
                     [i \in 1..Len(files_name) |-> folder[files_name[i]]])

SavedMessages == {SavedConnection, SavedRuntime}
ReachedResolve == pc \in {"Resolve", "Returned"} \/ (pc = "Raised" /\ exc.type /= "UnboundLocalError")
LookupRaised == pc = "Raised" /\ requests /= <<>> /\ Last(requests).out.raised

\* C1: when a lookup raises while Resolve is on entry index of a store of n
\* entries and the handler's Save.save_json returns, the checkpoint file holds
\* all n entries: those before index as a completed iteration leaves them,
\* those after index as Extract left them (new ones with the placeholders
\* [""] and ""), the entry at index as the failed iteration left it; and main
\* ends with a "Progress has been saved" error whose cause is the exception the
\* lookup raised
C1_CheckpointHoldsPartialStore ==
    (LookupRaised /\ exc.type /= "OSError") =>
        LET n == Len(Extracted)
        IN /\ checkpoint_file.state = "json"
           /\ Len(checkpoint_file.data) = n
           /\ index < n
           /\ \A j \in 1..n :
                LET saved == checkpoint_file.data[j]
                    ends == Iterations(Extracted[j])
                IN /\ j < index + 1 =>
                        /\ saved \in {o.entry : o \in {e \in ends : e.exc = NoExc}}
                        /\ saved.pronunciation /= NoPronunciation
                   /\ j = index + 1 =>
                        saved \in {o.entry : o \in {e \in ends : e.exc /= NoExc}}
                   /\ j > index + 1 =>
                        /\ saved = Extracted[j]
                        /\ j > Len(Loaded) =>
                              /\ saved.traduction = NoTraduction
                              /\ saved.pronunciation = NoPronunciation
           /\ exc.msg \in SavedMessages
           /\ exc.cause /= NoExc
           /\ exc.cause.type = Last(requests).out.type

\* a lookup raised on the third entry: two entries are resolved in the
\* checkpoint and the third still carries a placeholder
C1_Witness ==
    /\ LookupRaised
    /\ exc.type = "RuntimeError"
    /\ index = 2
    /\ Len(all_vocab) >= 3
    /\ checkpoint_file = Json(all_vocab)
    /\ all_vocab[1].traduction /= NoTraduction
    /\ all_vocab[2].traduction /= NoTraduction
    /\ all_vocab[3].traduction = NoTraduction

\* C2 (as amended): a run that reached Resolve has gone through Load and
\* Extract, and ends in one of three ways: it returns and the primary file
\* holds the final store; a lookup raised, the checkpoint file holds the
\* partial store and a "progress saved" error is raised; or a write itself
\* raised, the OSError leaves main and the file being written is left as it
\* was or truncated
C2_TerminalStates ==
    /\ ReachedResolve =>
          /\ files_name = sorted(DOMAIN folder)
          /\ Len(files_name) > 0
          /\ file_index = Len(files_name)
    /\ pc = "Returned" =>
          /\ processed_file = Json(all_vocab)
          /\ index = Len(all_vocab)
          /\ checkpoint_file = Absent
          /\ exc = NoExc
    /\ (pc = "Raised" /\ ReachedResolve) =>
          \/ /\ exc.msg \in SavedMessages
             /\ exc.cause /= NoExc
             /\ checkpoint_file = Json(all_vocab)
             /\ processed_file \in InitialFiles
          \/ /\ exc.type = "OSError"
             /\ exc.cause /= NoExc
             /\ checkpoint_file \in SaveFailed(Absent)
             /\ processed_file \in InitialFiles
          \/ /\ exc.type = "OSError"
             /\ exc.cause = NoExc
             /\ index = Len(all_vocab)
             /\ checkpoint_file = Absent
             /\ processed_file \in InitialFiles \cup {Truncated}

\* the checkpoint write failed after a lookup raised on a later entry: the
\* resolved entries are in neither file
C2_Witness ==
    /\ pc = "Raised"
    /\ exc.type = "OSError"
    /\ exc.cause /= NoExc
    /\ index >= 1
    /\ checkpoint_file = Truncated
    /\ processed_file /= Json(all_vocab)

\* C2 as stated: a run that reached Resolve ends with the primary file holding
\* the final store, or with the checkpoint file holding the partial store and
\* a "progress saved" error, whatever step fails
C2_StoreWrittenWhateverFails ==
    (pc \in {"Returned", "Raised"} /\ ReachedResolve) =>
        \/ pc = "Returned" /\ processed_file = Json(all_vocab)
        \/ /\ pc = "Raised"
           /\ exc.msg \in SavedMessages
           /\ checkpoint_file = Json(all_vocab)

\* C3: no two entries of the store have the same character (the loaded stores
\* of InitialFiles have unique characters)
C3_UniqueCharacters ==
    \A i, j \in 1..Len(all_vocab) :
        i /= j => all_vocab[i].character /= all_vocab[j].character

\* C4: extract_vocab run twice over the same text against the same store
\* leaves the store that one run leaves (the folder holds the same text twice)
C4_ExtractIdempotent ==
    (pc = "Resolve" /\ index = 0 /\ Len(files_name) = 2 /\ folder[1] = folder[2]) =>
        all_vocab = vocab_list(Characters(Loaded), Loaded, folder[1])

\* the entries the claim has extract_vocab add: a token is added iff, stripped,
\* its length is strictly between 0 and 12, it is not "2024" and it is not
\* already in the store
RECURSIVE ClaimedExtract(_, _)
ClaimedExtract(store, tokens) ==
    IF tokens = <<>> THEN store
    ELSE LET t == SelectSeq(Head(tokens), isalnum)
         IN ClaimedExtract(
                IF 0 < Len(t) /\ Len(t) < 12 /\ t /= Year /\ t \notin Characters(store)
                THEN Append(store, Entry(t, NoTraduction, NoPronunciation))
                ELSE store,
                Tail(tokens))

\* C5: after extract_vocab over the tokens of one document the store holds,
\* beyond what it held, exactly the tokens the claim's rule keeps
C5_KeptIffRule ==
    (pc = "Resolve" /\ index = 0 /\ Len(files_name) = 1) =>
        all_vocab = ClaimedExtract(Loaded, Split(folder[1], <<" ">>))

\* C6: a step of Resolve keeps the number and order of the entries and every
\* character, leaves a translation other than [""] and a non-empty
\* pronunciation as they are, and calls a translation lookup only for the
\* entry at index and only when its translation is [""]
C6_ResolveChangesOnlyUnresolved ==
    [][pc = "Resolve" =>
        /\ Len(all_vocab') = Len(all_vocab)
        /\ \A j \in 1..Len(all_vocab) :
              /\ all_vocab'[j].character = all_vocab[j].character
              /\ all_vocab[j].traduction /= NoTraduction =>
                    all_vocab'[j].traduction = all_vocab[j].traduction
              /\ all_vocab[j].pronunciation /= NoPronunciation =>
                    all_vocab'[j].pronunciation = all_vocab[j].pronunciation
        /\ \A k \in (Len(requests) + 1)..Len(requests') :
              requests'[k].fn \in {"chine_in", "google"} =>
                  /\ index < Len(all_vocab)
                  /\ requests'[k].word = all_vocab[index + 1].character
                  /\ all_vocab[index + 1].traduction = NoTraduction
      ]_vars

\* Resolve has passed a loaded entry whose translation was resolved and whose
\* pronunciation was not: only get_pinyin was called for it
C6_Witness ==
    /\ pc = "Resolve"
    /\ index >= 2
    /\ Loaded /= <<>>
    /\ Len(Loaded) = 2
    /\ Loaded[2].traduction /= NoTraduction
    /\ all_vocab[2] = Entry(wX, Loaded[2].traduction, get_pinyin(wX))
    /\ \A k \in 1..Len(requests) :
          requests[k].word = wX => requests[k].fn = "get_pinyin"

\* the dictionary page of a word holds no translation of it
PrimaryFoundNothing(call) ==
    \/ ~Truthy(get_traduction(call.word, SiteOf(call.word)))
    \/ ~call.out.raised /\ call.out.value = NoTraduction

\* C7: for each call of the primary lookup that got the site's container, the
\* secondary is called next iff the primary found no translation for the word
C7_SecondaryIffPrimaryFoundNothing ==
    \A k \in 1..Len(requests) :
        LET call == requests[k]
            fetched == ~(call.out.raised
                         /\ call.out.type \in Transports \cup {"IndexError"})
        IN (call.fn = "chine_in" /\ fetched) =>
              (PrimaryFoundNothing(call)
                  <=> /\ k < Len(requests)
                      /\ requests[k + 1].fn = "google"
                      /\ requests[k + 1].word = call.word)

\* C19: Extract returns the store it was given, whatever the folder holds: it
\* raises nothing, every entry loaded is still there, at its place and with
\* its character, translation and pronunciation, and the entries added carry
\* the placeholders [""] and ""
C19_ExtractKeepsStore ==
    /\ pc = "Raised" => exc.type /= "UnboundLocalError"
    /\ (pc = "Extract" \/ (pc = "Resolve" /\ index = 0)) =>
          /\ Len(all_vocab) >= Len(Loaded)
          /\ SubSeq(all_vocab, 1, Len(Loaded)) = Loaded
          /\ \A j \in (Len(Loaded) + 1)..Len(all_vocab) :
                /\ all_vocab[j].traduction = NoTraduction
                /\ all_vocab[j].pronunciation = NoPronunciation

\* C20: a run writes at most one of the two files: when a lookup raised,
\* only the checkpoint path was written; when main returned, only the primary
\* path was written and the checkpoint file is as it was; and the primary
\* file changes in no step but the one taken once Resolve has passed every
\* entry
C20_AtMostOneFileWritten ==
    /\ [](/\ Cardinality(saved_paths) <= 1
          /\ LookupRaised => saved_paths = {"checkpoint"}
          /\ pc = "Returned" =>
                (saved_paths = {"processed"} /\ checkpoint_file = Absent))
    /\ [][processed_file' /= processed_file =>
            (pc = "Resolve" /\ index = Len(all_vocab))]_vars

\* a lookup raised on the second entry of a run that had loaded a primary
\* file: the checkpoint holds the partial store, the primary file its own
C20_Witness ==
    /\ LookupRaised
    /\ index = 1
    /\ saved_paths = {"checkpoint"}
    /\ checkpoint_file = Json(all_vocab)
    /\ processed_file.state = "json"
    /\ processed_file.data /= all_vocab

(***************************************************************************)
(* Properties of return_traduction (SpecScrape)                            *)
(***************************************************************************)
Called == outcome /= NotCalled

\* C8: when the container holds neither marker pair, return_traduction
\* returns [""] and does not raise
C8_NotFoundReturnsPlaceholder ==
    (Called /\ framing = "none") => outcome = Return(NoTraduction)

\* C9: when the span holds no <li>, return_traduction returns one item, the
\* whole span with its tags removed
C9_PlainSpanIsOneItem ==
    (/\ Called
     /\ framing /= "none"
     /\ span /= <<>>
     /\ \A k \in 1..Len(span) : span[k] \notin ListItems) =>
        outcome = Return(<<Flatten([k \in 1..Len(span) |-> TextOf(span[k])])>>)

\* C10: when the span consists of n list items, return_traduction returns n
\* items, in order, each the text of its list item with the tags removed, and
\* no trailing empty element
C10_ListItemsInOrder ==
    (/\ Called
     /\ framing /= "none"
     /\ span /= <<>>
     /\ \A k \in 1..Len(span) : span[k] \in ListItems) =>
        outcome = Return([k \in 1..Len(span) |-> TextOf(span[k])])

\* the span <li>one</li><li>two</li> has yielded ["one", "two"]
C10_Witness ==
    /\ span = <<LiOne, LiTwo>>
    /\ framing = "primary"
    /\ outcome = Return(<< <<"o", "n", "e">>, <<"t", "w", "o">> >>)

(***************************************************************************)
(* Properties of the marker search (SpecMarkers)                           *)
(***************************************************************************)
\* the 0-based offsets >= from at which m occurs in s
Occurrences(s, m, from) ==
    {p \in from..(Len(s) - Len(m)) : SubSeq(s, p + 1, p + Len(m)) = m}
Least(S) == CHOOSE p \in S : \A r \in S : p <= r

\* the text from just after the first occurrence of start to just before the
\* first occurrence of end after it, or None when either is missing
SpanBetween(s, start, end) ==
    IF Occurrences(s, start, 0) = {} THEN PyNone
    ELSE LET after == Least(Occurrences(s, start, 0)) + Len(start)
         IN IF Occurrences(s, end, after) = {} THEN PyNone
            ELSE PyStr(SubSeq(s, after + 1, Least(Occurrences(s, end, after))))

ClaimedBody ==
    <<".">> \o EntreesPour \o wNH \o <<"A", "B", "C">> \o EntreesCommencantPar \o <<".">>

\* C11: given an end marker, extract_between_markers returns exactly the text
\* that begins right after the first occurrence of the start marker and ends
\* right before the first occurrence of the end marker located after it, and
\* None when either is missing; for a body holding
\* "Entrees pour NH" "ABC" "Entrees commencant par" the span is "ABC"
C11_SpanBetweenMarkers ==
    (extracted /= NotCalled /\ end_marker /= <<>>) =>
        /\ extracted = Return(SpanBetween(result, start_marker, end_marker))
        /\ (/\ result = ClaimedBody
            /\ start_marker = EntreesPour \o wNH
            /\ end_marker = EntreesCommencantPar) =>
                extracted = Return(PyStr(<<"A", "B", "C">>))

\* the end marker occurs before the start marker ends and not after it: None
C11_Witness ==
    /\ result = <<"a", "b", "a", "b", "b">>
    /\ start_marker = <<"a", "b">>
    /\ end_marker = <<"b", "a">>
    /\ extracted = Return(PyNone)

\* C12: get_traduction returns the primary span whenever it is found, the
\* empty span included, and the fallback span (or None) iff it is not found
C12_FallbackIffPrimaryNotFound ==
    traduction /= NotCalled =>
        LET primary == SpanBetween(result, EntreesPour \o query, EntreesCommencantPar)
        IN traduction = Return(IF primary /= PyNone THEN primary
                               ELSE SpanBetween(result, Traduction, EditerCfdict))

(***************************************************************************)
(* Properties of DefinitionParser (SpecParser)                             *)
(***************************************************************************)
\* the 0-based offsets at which label l occurs in s as a whole word, letter
\* case ignored
WholeWord(s, l) ==
    {p \in Occurrences(lower(s), l, 0) :
        /\ p = 0 \/ ~IsWord(s[p])
        /\ p + Len(l) = Len(s) \/ ~IsWord(s[p + Len(l) + 1])}
LabelStarts(s) == UNION {WholeWord(s, l) : l \in Labels}
Greatest(S) == CHOOSE p \in S : \A r \in S : r <= p

\* C13: parse_definition returns the input string itself when the string holds
\* no whole-word occurrence of a label, letter case ignored, and a mapping
\* when it holds at least one
C13_NoLabelReturnsString ==
    parsed_data /= NotCalled =>
        IF LabelStarts(definition) = {}
        THEN parsed_data = Return(PyStr(definition))
        ELSE ~parsed_data.raised /\ parsed_data.value.tag = "dict"

\* "a random phrase" came back as it was
C13_Witness ==
    /\ definition = RandomPhrase
    /\ parsed_data = Return(PyStr(RandomPhrase))

\* what is left of the partition that starts at offset p, which holds label l:
\* the text up to the next label start or the end of the string, without its
\* leading label and without the whitespace around it
Remainder(s, p, l) ==
    LET later == {r \in LabelStarts(s) : r > p}
        end == IF later = {} THEN Len(s) ELSE Least(later)
    IN strip(SubSeq(s, p + Len(l) + 1, end))

TreeParsed ==
    (Noun :> << [definition |-> <<"a", " ", "t", "r", "e", "e", ".">>,
                 examples |-> << <<"E", "x", "a", "m", "p", "l", "e", " ", "o", "n", "e", ".">>,
                                 <<"E", "x", "a", "m", "p", "l", "e", " ", "t", "w", "o", ".">> >>] >>)
    @@ (lower(Verb) :> << [definition |-> <<"t", "o", " ", "g", "r", "o", "w", ".">>,
                           examples |-> <<>>] >>)

\* C14: the keys of the mapping are the labels that occur, in lower case, and
\* the value of each is the sub-definitions of what is left of a partition of
\* that label, the partitions starting at every label start and the last one
\* ending at the end of the string; the tree definition parses to noun ->
\* [a tree. / Example one., Example two.] and verb -> [to grow. / no example]
C14_PartitionsAtLabelStarts ==
    (parsed_data /= NotCalled /\ LabelStarts(definition) /= {}) =>
        /\ ~parsed_data.raised
        /\ parsed_data.value.tag = "dict"
        /\ DOMAIN parsed_data.value.dict = {l \in Labels : WholeWord(definition, l) /= {}}
        /\ \A l \in DOMAIN parsed_data.value.dict :
              \E p \in WholeWord(definition, l) :
                  parsed_data.value.dict[l] = _split_definitions(Remainder(definition, p, l))
        /\ definition = TreeDefinition => parsed_data.value.dict = TreeParsed

C14_Witness ==
    /\ definition = TreeDefinition
    /\ parsed_data = Return(PyDict(TreeParsed))

\* C15: when a label occurs in several partitions, its value is the
\* sub-definitions of the last of them alone
C15_LastOccurrenceWins ==
    parsed_data /= NotCalled =>
        \A l \in Labels :
            Cardinality(WholeWord(definition, l)) > 1 =>
                parsed_data.value.dict[l] =
                    _split_definitions(Remainder(definition, Greatest(WholeWord(definition, l)), l))

\* "Noun a verb b NOUN c": noun holds c alone, a is gone
C15_Witness ==
    /\ definition = NounVerbNoun
    /\ parsed_data /= NotCalled
    /\ parsed_data.value.dict[Noun] = << [definition |-> <<"c">>, examples |-> <<>>] >>

\* the 1-based positions at which a maximal run of digits followed by
\* whitespace starts
NumberStarts(s) ==
    {p \in 1..Len(s) : (p = 1 \/ ~IsDigit(s[p - 1])) /\ NumberAt(s, p)}

\* the definition of a sub-entry: its text up to the first whitespace that
\* follows a period
SubEntryDefinition(fragment) == Head(SplitAfterPeriods(strip(fragment), 1, 1))

\* the definitions of the numbered sub-entries that start at the positions P,
\* each without its number, in source order
RECURSIVE NumberedDefinitions(_, _)
NumberedDefinitions(s, P) ==
    IF P = {} THEN <<>>
    ELSE LET p == Least(P)
             rest == P \ {p}
             end == IF rest = {} THEN Len(s) ELSE Least(rest) - 1
         IN <<SubEntryDefinition(SubSeq(s, p + DigitRun(s, p), end))>>
            \o NumberedDefinitions(s, rest)

ClaimedDefinitions(s) ==
    LET P == NumberStarts(s)
        leading == strip(SubSeq(s, 1, IF P = {} THEN Len(s) ELSE Least(P) - 1))
    IN (IF leading = <<>> THEN <<>> ELSE <<SubEntryDefinition(leading)>>)
       \o NumberedDefinitions(s, P)

\* C17: _split_definitions yields one record for a leading unnumbered fragment
\* if there is one, then one record per maximal run of digits followed by
\* whitespace, in source order, the definition of a numbered sub-entry being
\* its text without its number, whatever the number of digits; "12 foo"
\* yields the single record foo
C17_OneRecordPerNumberedEntry ==
    definitions /= NotCalled =>
        /\ [i \in 1..Len(definitions.value) |-> definitions.value[i].definition]
              = ClaimedDefinitions(text)
        /\ text = TwelveFoo =>
              definitions.value = << [definition |-> <<"f", "o", "o">>, examples |-> <<>>] >>

(***************************************************************************)
(* Properties of CardManager (SpecCards)                                   *)
(***************************************************************************)
\* the keywords of an argument, as a set
KeywordsOf(kwarg) ==
    IF kwarg.tag = "list" THEN {kwarg.list[i] : i \in 1..Len(kwarg.list)}
    ELSE {kwarg.str}

\* a card's category is set (it has one, and not the empty one) and holds one
\* of the keywords as a substring, letter case ignored
CategoryMatches(card, kwarg) ==
    /\ card.category /= PyNone
    /\ card.category.str /= <<>>
    /\ \E k \in KeywordsOf(kwarg) :
          Occurrences(lower(card.category.str), lower(k), 0) /= {}

\* the positions of the cards of the file that match no keyword, in order
RECURSIVE Ascending(_)
Ascending(S) ==
    IF S = {} THEN <<>> ELSE <<Least(S)>> \o Ascending(S \ {Least(S)})

\* C16: after remove_cards_by_categories the cards are those of the file
\* whose category is not set or holds none of the keywords, as a substring and
\* letter case ignored, in their original order; with the keyword "Cours1"
\* the cards of category "Cours1 Basics" and "cours10" are both removed
C16_RemovedIffCategoryMatches ==
    cards_pc = "Done" =>
        LET kept == Ascending({i \in 1..Len(xml_cards) :
                                  ~CategoryMatches(xml_cards[i], keywords)})
        IN /\ cards = [j \in 1..Len(kept) |-> xml_cards[kept[j]]]
           /\ keywords = PyStr(Cours1) =>
                 \A j \in 1..Len(cards) :
                     cards[j].category \notin {PyStr(Cours1Basics), PyStr(cours10)}

\* the keyword "Cours1" took "Cours1 Basics" and "cours10" out and left the
\* card without category that stood between them
C16_Witness ==
    /\ cards_pc = "Done"
    /\ keywords = PyStr(Cours1)
    /\ xml_cards = <<Card(<<"a">>, PyStr(Cours1Basics)), Card(<<"n">>, PyNone),
                     Card(<<"b">>, PyStr(cours10))>>
    /\ cards = <<Card(<<"n">>, PyNone)>>

(***************************************************************************)
(* Properties of the loop of dataset.main (SpecDataset)                    *)
(***************************************************************************)
\* C18: when the plain text of the container holds no span between "[ " and
\* "]", get_pinyin reports no match (None, not the empty string) and the
\* iteration leaves the entry without a pinyin field
C18_NoMatchLeavesFieldUnset ==
    (/\ pinyin /= NotCalled
     /\ SpanBetween(get_text(result), PinyinOpen, PinyinClose) = PyNone) =>
        /\ pinyin = Return(PyNone)
        /\ "pinyin" \notin DOMAIN word_entry

(***************************************************************************)
(* Properties of runs of main one after the other (SpecRuns)               *)
(***************************************************************************)
\* the entry position i of the store held when Resolve began: the primary
\* file's entry, or the placeholders of a word Extract appended
StartEntry(i) ==
    IF i <= Len(Loaded) THEN Loaded[i]
    ELSE Entry(all_vocab[i].character, NoTraduction, NoPronunciation)

StartsUntranslated(i) == StartEntry(i).traduction = NoTraduction
StartsUnpronounced(i) == StartEntry(i).pronunciation = NoPronunciation

\* a run after the first is in Resolve and the checkpoint file an earlier run
\* wrote is still there
AfterCheckpointedFailure ==
    /\ run > 1
    /\ pc = "Resolve"
    /\ checkpoint_file.state = "json"

\* the checkpoint holds for the word at position i a translation or a
\* pronunciation that the primary file does not hold
ResolvedOnlyInCheckpoint(i) ==
    /\ i <= Len(checkpoint_file.data)
    /\ checkpoint_file.data[i].character = all_vocab[i].character
    /\ \/ /\ checkpoint_file.data[i].traduction /= NoTraduction
          /\ StartsUntranslated(i)
       \/ /\ checkpoint_file.data[i].pronunciation /= NoPronunciation
          /\ StartsUnpronounced(i)

\* the lookups of one function the run called, in order
CallsOf(fn) == SelectSeq(requests, LAMBDA c : c.fn = fn)

\* the run called the lookups the entry at position i wanted when Resolve
\* began: its translation lookup is the k-th of the run when it is the k-th
\* entry that began without translation, and so for the pronunciation
LookedUpAgain(i) ==
    /\ StartsUntranslated(i) =>
          LET k == Cardinality({j \in 1..i : StartsUntranslated(j)})
          IN /\ k <= Len(CallsOf("chine_in"))
             /\ CallsOf("chine_in")[k].word = all_vocab[i].character
    /\ StartsUnpronounced(i) =>
          LET k == Cardinality({j \in 1..i : StartsUnpronounced(j)})
          IN /\ k <= Len(CallsOf("get_pinyin"))
             /\ CallsOf("get_pinyin")[k].word = all_vocab[i].character

\* C21: no run resumes from the checkpoint. Load hands on the store of the
\* primary file (the empty store when there is none) whatever the checkpoint
\* file holds; so in a run that follows a checkpointed failure every entry the
\* loop has not reached is as the primary file or Extract's placeholders have
\* it, not as the checkpoint has it, and every entry the loop has passed that
\* was resolved only in the checkpoint has been looked up again by this run
C21_NoResumeFromCheckpoint ==
    /\ [](AfterCheckpointedFailure =>
            /\ \A i \in (index + 1)..Len(all_vocab) : all_vocab[i] = StartEntry(i)
            /\ \A i \in 1..index :
                  ResolvedOnlyInCheckpoint(i) => LookedUpAgain(i))
    /\ [][(pc = "Load" /\ pc' = "Extract") => all_vocab' = Loaded]_vars

\* the second run has passed an entry that the checkpoint of the first run
\* holds translated and the primary file does not
C21_Witness ==
    /\ AfterCheckpointedFailure
    /\ \E i \in 1..index :
          /\ ResolvedOnlyInCheckpoint(i)
          /\ checkpoint_file.data[i].traduction /= NoTraduction
          /\ StartsUntranslated(i)
          /\ LookedUpAgain(i)
====
